---- MODULE Spec2Model ----
(***************************************************************************)
(* Event CRUD gateway of functions/index.js: six HTTP handlers and the     *)
(* updateOnUpdate document trigger, all talking to the "events" collection *)
(* of one document store.                                                  *)
(*                                                                         *)
(* The handlers share no state but the store.  Each awaits one store call  *)
(* and then only builds its response from the outcome of that call, so a   *)
(* handler is one step, taken at its store call; the handlers of           *)
(* concurrent requests interleave as whole steps, in any order.  The       *)
(* trigger is asynchronous: the store queues one event per document update *)
(* (`pending`) and UpdateOnUpdate is the delivery of one of them, at any   *)
(* later time.  `last` is the request answered by the latest step, with    *)
(* its response.                                                           *)
(***************************************************************************)
EXTENDS Integers, FiniteSets, Sequences, TLC

\* ------------------------------------------------------------- bounds
MaxIds == 2            \* document ids the store can hand out / clients can name
MaxClock == 5          \* writes that carry a server timestamp

Ids == 1..MaxIds

VARIABLES
  store,       \* events collection: id -> document, or NoDoc
  usedIds,     \* ids the store has ever assigned with add()
  clock,       \* the store's clock (FieldValue.serverTimestamp())
  pending,     \* id -> number of undelivered onDocumentUpdated events
  trigWrites,  \* id -> writes by updateOnUpdate since the last updateEvent write
  last         \* the request answered by the latest step, with its response; Idle if that step sent none

vars == <<store, usedIds, clock, pending, trigWrites, last>>

\* ------------------------------------------------------------- values
undefined == "<undefined>"
Fields == {"title", "description", "date", "location", "organizer", "eventType"}
Methods == {"GET", "POST"}

\* JavaScript truthiness of a body / query value: !v
Falsy(v) == v = undefined \/ v = ""

\* new Date(s).getTime(), as the seconds.nanoseconds of the Timestamp built
\* from it; "NaN" for an Invalid Date (also new Date(undefined)).
NaN == "NaN"
ParseDate(s) ==
  CASE s = "2024-05-01" -> "1714521600.000000000"
    [] s = "2024-05-01T00:00:00.000Z" -> "1714521600.000000000"
    [] s = "2024-06-15" -> "1718409600.000000000"
    [] OTHER -> NaN

\* mutant of TimestampThrows: a Timestamp is built from any Date
TimestampAcceptsNaN(s) == FALSE

\* Timestamp.fromDate(new Date(s)) throws on an Invalid Date: the Timestamp
\* constructor rejects NaN seconds.
TimestampThrows(s) == ParseDate(s) = NaN

Base == [title |-> "Meetup", description |-> "d", date |-> "2024-05-01",
         location |-> "Hall A", organizer |-> "Org", eventType |-> "social"]
Alt == [title |-> "Talk", description |-> "t", date |-> "2024-06-15",
        location |-> "Hall B", organizer |-> "Bob", eventType |-> "work"]
NoBody == [f \in Fields |-> undefined]

\* request bodies of createEvent: two full payloads, one with another
\* spelling of Base's date, every payload with one field absent or empty,
\* and one with an unparseable date
CreateBodies ==
  {Base, Alt, [Base EXCEPT !.date = "2024-05-01T00:00:00.000Z"],
   [Base EXCEPT !.date = "soon"]}
  \cup {[Base EXCEPT ![f] = v] : f \in Fields, v \in {undefined, ""}}

\* request bodies of updateEvent
UpdateBodies ==
  {Alt, [Alt EXCEPT !.date = undefined], [Alt EXCEPT !.title = undefined]}

QueryTypes == {undefined, "social"}
QueryDates == {undefined, "2024-05-01"}

NoDoc == [exists |-> FALSE]
Idle == [h |-> "idle"]
NoData == {}

\* {id: doc.id, ...doc.data()}
EventOf(id, d) ==
  [id |-> id, title |-> d.title, description |-> d.description, date |-> d.date,
   location |-> d.location, organizer |-> d.organizer, eventType |-> d.eventType,
   updatedAt |-> d.updatedAt]

\* ------------------------------------------------------------- requests
NewReq(h, method, id, body, qType, qDate) ==
  [h |-> h, method |-> method, id |-> id, body |-> body,
   qType |-> qType, qDate |-> qDate,
   sent |-> 0,         \* responses sent (res.status(..).json / .send)
   status |-> 0, message |-> "", data |-> NoData,
   calls |-> 0,        \* store calls issued
   failed |-> FALSE,   \* the store call threw / rejected
   fault |-> FALSE,    \* ... because the store itself was failing
   existed |-> FALSE,  \* the id named a document when the store call ran
   changed |-> FALSE,  \* the store call changed the collection
   snap |-> NoData]    \* what the store call returned / left in the store

\* res.status(code).json(...) / .send(...)
Send(r, code, message, data) ==
  [r EXCEPT !.sent = @ + 1, !.status = code, !.message = message, !.data = data]

\* the step sent no response
NoResponse == last' = Idle

StoreVars == <<store, usedIds, clock, pending, trigWrites>>

Init ==
  /\ store = [i \in Ids |-> NoDoc]
  /\ usedIds = {}
  /\ clock = 0
  /\ pending = [i \in Ids |-> 0]
  /\ trigWrites = [i \in Ids |-> 0]
  /\ last = Idle

\* ------------------------------------------------------------- the store
\* mutant of NewDoc: the date is stored as submitted, not parsed
NewDocRawDate(body, now) ==
  [exists |-> TRUE, title |-> body.title, description |-> body.description,
   date |-> body.date, location |-> body.location,
   organizer |-> body.organizer, eventType |-> body.eventType, updatedAt |-> now]

\* collection("events").add({...}): the document createEvent inserts
NewDoc(body, now) ==
  [exists |-> TRUE, title |-> body.title, description |-> body.description,
   date |-> ParseDate(body.date), location |-> body.location,
   organizer |-> body.organizer, eventType |-> body.eventType, updatedAt |-> now]

\* ids add() may assign: auto-generated, never one it assigned before (ids
\* are interchangeable: the smallest unassigned one stands for the choice)
AutoIds(s, used) == {i \in Ids \ used : \A j \in Ids \ used : i <= j}

\* mutant of UpdateRejects: update behaves as set-with-merge
UpdateUpserts(s, id) == FALSE

\* doc(id).update(...) rejects (NOT_FOUND) when id names no document
UpdateRejects(s, id) == ~s[id].exists

\* doc(id).update({...six fields, updatedAt}) of updateEvent: every content
\* field is overwritten
UpdatedDoc(d, body, now) ==
  [exists |-> TRUE, title |-> body.title, description |-> body.description,
   date |-> ParseDate(body.date), location |-> body.location,
   organizer |-> body.organizer, eventType |-> body.eventType, updatedAt |-> now]

\* docRef.update({updatedAt: serverTimestamp()}) of updateOnUpdate
TouchedDoc(d, now) == [d EXCEPT !.updatedAt = now]

\* mutant of DeleteRejects: delete with the precondition that the document exists
DeleteRequiresExisting(s, id) == ~s[id].exists

\* doc(id).delete() has no precondition: it rejects for no id
DeleteRejects(s, id) == FALSE

\* doc(id).delete(): removes the document, succeeds when there is none
StoreDelete(s, id) == [s EXCEPT ![id] = NoDoc]

\* collection("events").get(), mapped over snapshot.docs.  A list response
\* is kept as the set of its elements' ids: each id stands for the element
\* {id, ...doc.data()} of that document as it was read.
AllEvents(s) == {j \in Ids : s[j].exists}

\* the where() clauses filterEvents adds
Matches(d, qType, qDate) ==
  /\ Falsy(qType) \/ d.eventType = qType
  /\ Falsy(qDate) \/ d.date = ParseDate(qDate)

\* eventsRef.get() of filterEvents, mapped over snapshot.docs (ids, as above)
FilteredEvents(s, qType, qDate) ==
  {j \in Ids : s[j].exists /\ Matches(s[j], qType, qDate)}

\* a value Firestore refuses to write: undefined
HasUndefined(body) == \E f \in Fields : body[f] = undefined

\* ------------------------------------------------------------- handler pieces
\* mutant of MissingRequired: eventType is not checked
MissingRequiredButType(body) == \E f \in Fields \ {"eventType"} : Falsy(body[f])

\* !title || !description || !date || !location || !organizer || !eventType
MissingRequired(body) == \E f \in Fields : Falsy(body[f])

\* the 405 / 400 envelopes
MethodNotAllowed(r) == Send(r, 405, "Method Not Allowed", NoData)
MissingFields(r) == Send(r, 400, "Missing required fields", NoData)

\* mutant of Catch: the error is logged and no response is sent
CatchSilent(r, message) == r

\* the catch block: one 500 envelope
Catch(r, message) == Send(r, 500, message, NoData)

\* data of the createEvent response: the id and the submitted fields
CreatedData(id, body) ==
  {[id |-> id, title |-> body.title, description |-> body.description,
    date |-> body.date, location |-> body.location,
    organizer |-> body.organizer, eventType |-> body.eventType]}

\* mutant of GetByIdData: the document's data without its id
GetByIdDataNoId(id, d) ==
  IF ~d.exists THEN NoData
  ELSE {[title |-> d.title, description |-> d.description, date |-> d.date,
         location |-> d.location, organizer |-> d.organizer,
         eventType |-> d.eventType, updatedAt |-> d.updatedAt]}

\* data of the getEventById response
GetByIdData(id, d) == IF ~d.exists THEN NoData ELSE {EventOf(id, d)}

DocAt(s, id) == IF s[id].exists THEN {EventOf(id, s[id])} ELSE NoData

\* ------------------------------------------------------------- createEvent
CreateEvent(method, body) ==
  LET r == NewReq("createEvent", method, 0, body, undefined, undefined) IN
  /\ UNCHANGED <<pending, trigWrites>>
  /\ IF method # "POST"
       THEN last' = MethodNotAllowed(r) /\ UNCHANGED <<store, usedIds, clock>>
     ELSE IF MissingRequired(body)
       THEN last' = MissingFields(r) /\ UNCHANGED <<store, usedIds, clock>>
     ELSE IF TimestampThrows(body.date)
       \* thrown while the argument of add() is built: no store call
       THEN last' = Catch(r, "Error creating event")
            /\ UNCHANGED <<store, usedIds, clock>>
     ELSE \E ok \in BOOLEAN :
       IF ok
         THEN /\ clock < MaxClock
              /\ \E id \in AutoIds(store, usedIds) :
                   /\ store' = [store EXCEPT ![id] = NewDoc(body, clock + 1)]
                   /\ usedIds' = usedIds \cup {id}
                   /\ clock' = clock + 1
                   /\ last' = Send([r EXCEPT !.calls = 1, !.id = id,
                                             !.existed = store[id].exists,
                                             !.changed = (store' # store),
                                             !.snap = DocAt(store', id)],
                                   201, "", CreatedData(id, body))
         ELSE /\ last' = Catch([r EXCEPT !.calls = 1, !.failed = TRUE,
                                         !.fault = TRUE],
                               "Error creating event")
              /\ UNCHANGED <<store, usedIds, clock>>

\* ------------------------------------------------------------- getAllEvents
GetAllEvents(method) ==
  LET r == NewReq("getAllEvents", method, 0, NoBody, undefined, undefined) IN
  /\ UNCHANGED StoreVars
  /\ \E ok \in BOOLEAN :
       LET q == [r EXCEPT !.calls = 1, !.failed = ~ok, !.fault = ~ok,
                          !.snap = IF ok THEN AllEvents(store) ELSE NoData] IN
       IF q.failed
         THEN last' = Catch(q, "Error fetching all event")
       ELSE IF q.method # "GET"
         THEN last' = MethodNotAllowed(q)
         ELSE last' = Send(q, 201, "", q.snap)

\* ------------------------------------------------------------- getEventById
GetEventById(method, id) ==
  LET r == NewReq("getEventById", method, id, NoBody, undefined, undefined) IN
  /\ UNCHANGED StoreVars
  /\ IF method # "GET"
       THEN last' = MethodNotAllowed(r)
       ELSE \E ok \in BOOLEAN :
              LET q == [r EXCEPT !.calls = 1, !.failed = ~ok, !.fault = ~ok,
                                 !.existed = store[id].exists,
                                 !.snap = IF ok THEN GetByIdData(id, store[id])
                                                ELSE NoData] IN
              IF q.failed
                THEN last' = Catch(q, "Error fetching event")
                ELSE last' = Send(q, 200, "", q.snap)

\* ------------------------------------------------------------- updateEvent
UpdateEvent(id, body) ==
  LET r == NewReq("updateEvent", "-", id, body, undefined, undefined) IN
  /\ UNCHANGED usedIds
  /\ IF TimestampThrows(body.date)
       \* thrown while the argument of update() is built: no store call
       THEN /\ last' = Catch(r, "Error updating event")
            /\ UNCHANGED <<store, clock, pending, trigWrites>>
     ELSE IF HasUndefined(body)
       \* update() itself throws on an undefined field value
       THEN /\ last' = Catch([r EXCEPT !.calls = 1, !.failed = TRUE,
                                       !.existed = store[id].exists],
                             "Error updating event")
            /\ UNCHANGED <<store, clock, pending, trigWrites>>
     ELSE \E ok \in BOOLEAN :
       IF ok /\ ~UpdateRejects(store, id)
         THEN /\ clock < MaxClock
              /\ store' = [store EXCEPT ![id] = UpdatedDoc(@, body, clock + 1)]
              /\ clock' = clock + 1
              /\ pending' = [pending EXCEPT ![id] = @ + 1]
              /\ trigWrites' = [trigWrites EXCEPT ![id] = 0]
              /\ last' = Send([r EXCEPT !.calls = 1, !.existed = store[id].exists,
                                        !.changed = (store' # store)],
                              200, "Event updated", NoData)
         ELSE /\ last' = Catch([r EXCEPT !.calls = 1, !.failed = TRUE, !.fault = ~ok,
                                         !.existed = store[id].exists],
                               "Error updating event")
              /\ UNCHANGED <<store, clock, pending, trigWrites>>

\* ------------------------------------------------------------- deleteEvent
DeleteEvent(id) ==
  LET r == NewReq("deleteEvent", "-", id, NoBody, undefined, undefined) IN
  /\ UNCHANGED <<usedIds, clock, pending, trigWrites>>
  /\ \E ok \in BOOLEAN :
       IF ok /\ ~DeleteRejects(store, id)
         THEN /\ store' = StoreDelete(store, id)
              /\ last' = Send([r EXCEPT !.calls = 1, !.existed = store[id].exists,
                                        !.changed = (store' # store)],
                              200, "Event deleted", NoData)
         ELSE /\ last' = Catch([r EXCEPT !.calls = 1, !.failed = TRUE, !.fault = ~ok,
                                         !.existed = store[id].exists],
                               "Error deleting event")
              /\ UNCHANGED store

\* ------------------------------------------------------------- filterEvents
FilterEvents(qType, qDate) ==
  LET r == NewReq("filterEvents", "-", 0, NoBody, qType, qDate) IN
  /\ UNCHANGED StoreVars
  /\ IF Falsy(qType) /\ Falsy(qDate)
       THEN last' = MissingFields(r)
     ELSE IF TimestampThrows(qDate)
       \* dateFilter is built whether or not a date was given
       THEN last' = Catch(r, "Error filtering event")
     ELSE \E ok \in BOOLEAN :
            LET q == [r EXCEPT !.calls = 1, !.failed = ~ok, !.fault = ~ok,
                               !.snap = IF ok THEN FilteredEvents(store, qType, qDate)
                                              ELSE NoData] IN
            IF q.failed
              THEN last' = Catch(q, "Error filtering event")
              ELSE last' = Send(q, 200, "", q.snap)

\* ------------------------------------------------------------- updateOnUpdate
\* One delivery of an onDocumentUpdated event for events/{id}.  The write the
\* trigger makes is an update of the same document, so the store queues
\* another event for it.
UpdateOnUpdate(id) ==
  /\ pending[id] > 0
  /\ UNCHANGED usedIds
  /\ NoResponse
  /\ \E ok \in BOOLEAN :
       IF ok /\ ~UpdateRejects(store, id)
         THEN /\ clock < MaxClock
              /\ store' = [store EXCEPT ![id] = TouchedDoc(@, clock + 1)]
              /\ clock' = clock + 1
              /\ pending' = [pending EXCEPT ![id] = (@ - 1) + 1]
              /\ trigWrites' = [trigWrites EXCEPT ![id] = @ + 1]
         ELSE \* the catch block: console.error only
              /\ pending' = [pending EXCEPT ![id] = @ - 1]
              /\ UNCHANGED <<store, clock, trigWrites>>

\* ------------------------------------------------------------- specification
Next ==
  \/ \E b \in CreateBodies : CreateEvent("POST", b)
  \/ \E m \in Methods \ {"POST"} : CreateEvent(m, NoBody)
  \/ \E m \in Methods : GetAllEvents(m)
  \/ \E m \in Methods, id \in Ids : GetEventById(m, id)
  \/ \E id \in Ids, b \in UpdateBodies : UpdateEvent(id, b)
  \/ \E id \in Ids : DeleteEvent(id)
  \/ \E qt \in QueryTypes, qd \in QueryDates : FilterEvents(qt, qd)
  \/ \E id \in Ids : UpdateOnUpdate(id)

Spec == Init /\ [][Next]_vars

\* ------------------------------------------------------------- claims
Exists(s) == {i \in Ids : s[i].exists}

\* C1: a createEvent POST whose body has one of the six required fields
\* absent or empty is answered, once, with HTTP 400, no store call is issued
\* and the events collection is the same after the request as before it.
C1Case == last.h = "createEvent" /\ last.method = "POST"
          /\ \E f \in Fields : last.body[f] \in {undefined, ""}
C1_MissingFieldRejected ==
  [][C1Case' => (last'.status = 400 /\ last'.sent = 1 /\ last'.calls = 0
                 /\ store' = store)]_vars
C1_Witness ==
  /\ C1Case /\ last.status = 400
  /\ last.body.eventType = ""
  /\ Exists(store) # {}

\* C2 as claimed: when createEvent answers 201, the document with the
\* response's id is in the store at that moment and holds the six submitted
\* field values.
C2_StoredEqualsSubmitted ==
  (last.h = "createEvent" /\ last.status = 201) =>
    \E d \in last.data :
      store[d.id].exists /\ \A f \in Fields : store[d.id][f] = last.body[f]

\* C2 amended: when createEvent answers 201, the response carries the
\* submitted field values and the id of the document this request inserted,
\* an id that named no document before; that document is in the store when
\* add() has resolved, with the submitted title, description, location,
\* organizer and eventType, with the timestamp parsed from the submitted date
\* (not the date string) as its date, and with the store's time as updatedAt.
C2_InsertedFromSubmitted ==
  (last.h = "createEvent" /\ last.status = 201) =>
    /\ last.sent = 1 /\ ~last.existed /\ last.changed
    /\ \E d \in last.data :
         /\ last.data = {d}
         /\ d.id \in usedIds /\ store[d.id].exists
         /\ \A f \in Fields : d[f] = last.body[f]
         /\ \A f \in Fields \ {"date"} : store[d.id][f] = last.body[f]
         /\ store[d.id].date = ParseDate(last.body.date)
         /\ store[d.id].date \notin {NaN, last.body.date}
         /\ store[d.id].updatedAt = clock
C2_Witness ==
  /\ last.h = "createEvent" /\ last.status = 201
  /\ last.body.date = "2024-05-01T00:00:00.000Z"
  /\ Cardinality(Exists(store)) = 2

\* C3 as claimed: a createEvent that is not a POST, and a getAllEvents or
\* getEventById that is not a GET, is answered with HTTP 405 and changes
\* nothing in the store; createEvent and getEventById issue no store call
\* before rejecting, getAllEvents issues its read.
C3_WrongMethodIs405 ==
  /\ (last.h = "createEvent" /\ last.method # "POST") =>
       (last.status = 405 /\ last.calls = 0 /\ ~last.changed)
  /\ (last.h = "getEventById" /\ last.method # "GET") =>
       (last.status = 405 /\ last.calls = 0 /\ ~last.changed)
  /\ (last.h = "getAllEvents" /\ last.method # "GET") =>
       (last.status = 405 /\ last.calls = 1 /\ ~last.changed)

\* C4: a getEventById GET leaves the store as it was, and unless the store
\* itself fails it is answered with HTTP 200 (never 404): with an empty data
\* object when the id names no document, with that document's id and stored
\* fields when it names one.
C4_GetByIdFound ==
  [][(last'.h = "getEventById" /\ last'.method = "GET") =>
       /\ store' = store
       /\ last'.status # 404
       /\ last'.sent = 1
       /\ last'.failed = last'.fault
       /\ ~last'.fault =>
            /\ last'.status = 200
            /\ last'.data =
                 IF store[last'.id].exists
                   THEN {[id |-> last'.id, title |-> store[last'.id].title,
                          description |-> store[last'.id].description,
                          date |-> store[last'.id].date,
                          location |-> store[last'.id].location,
                          organizer |-> store[last'.id].organizer,
                          eventType |-> store[last'.id].eventType,
                          updatedAt |-> store[last'.id].updatedAt]}
                   ELSE {}]_vars
C4_Witness ==
  /\ last.h = "getEventById" /\ last.status = 200
  /\ last.data = {}
  /\ last.id \in usedIds
  /\ Exists(store) # {}

C6_DeleteIdempotent ==
  [][last'.h = "deleteEvent" =>
       /\ last'.failed = last'.fault
       /\ last'.fault => store' = store
       /\ ~last'.fault =>
            /\ last'.status = 200 /\ last'.message = "Event deleted"
            /\ last'.sent = 1
            /\ ~store'[last'.id].exists
            /\ \A i \in Ids \ {last'.id} : store'[i] = store[i]
            /\ ~store[last'.id].exists => store' = store]_vars
C6_Witness ==
  /\ last.h = "deleteEvent" /\ last.status = 200
  /\ ~last.existed /\ ~last.changed
  /\ last.id \in usedIds
  /\ Exists(store) # {}

\* C7 as claimed: with a stored event of eventType T, filterEvents with
\* eventType=T and no date is answered (unless the store itself fails) with
\* HTTP 200 and exactly the stored events whose eventType is T.
C7_FilterByType ==
  (/\ last.h = "filterEvents" /\ last.qType # undefined /\ last.qDate = undefined
   /\ ~last.fault
   /\ \E i \in Exists(store) : store[i].eventType = last.qType) =>
    /\ last.status = 200
    /\ last.data = {i \in Exists(store) : store[i].eventType = last.qType}

\* C8: every request of every handler is answered exactly once and issues at
\* most one store call; a request whose store call failed is answered with
\* HTTP 500 and changed nothing in the store.
C8_OneResponse ==
  [][last'.h # "idle" =>
       /\ last'.sent = 1 /\ last'.calls <= 1
       /\ last'.status \in {200, 201, 400, 405, 500}
       /\ (last'.fault => last'.failed)
       /\ (last'.failed => (last'.calls = 1 /\ last'.status = 500
                            /\ store' = store))]_vars
C8_Witness ==
  /\ last.h = "updateEvent" /\ last.fault /\ last.status = 500 /\ last.existed

\* C9 as claimed: after an updateEvent the trigger writes the document once
\* more and then stops: no document gets a second trigger write.
C9_OneTriggerWrite == \A i \in Ids : trigWrites[i] <= 1

\* C10: an id whose document was deleted never names a document again,
\* whatever runs later or was pending: an updateEvent or a trigger delivery
\* for it fails on the missing document, createEvent gives new documents
\* ids that were never assigned, and a trigger delivery that fails changes
\* nothing in the store and answers nobody.
C10_DeleteIsFinal ==
  [][/\ \A i \in usedIds : ~store[i].exists => ~store'[i].exists
     /\ \A i \in Ids : (store'[i].exists /\ ~store[i].exists) => i \notin usedIds
     /\ usedIds \subseteq usedIds'
     /\ (\E i \in Ids : pending'[i] < pending[i]) =>
          (store' = store /\ last' = Idle)]_vars
C10_Witness ==
  \E i \in usedIds :
    /\ ~store[i].exists
    /\ pending[i] > 0
    /\ last.h = "updateEvent" /\ last.id = i /\ last.failed /\ ~last.fault
    /\ Exists(store) # {}

====
